---- MODULE Spec2Model ----
(***************************************************************************)
(* Model of server.py: the request-intake pipeline (validate_payload,      *)
(* the delivery fan-out of AppHandler.do_POST) and the services cache      *)
(* (load_active_services) shared by the request threads of the             *)
(* ThreadingHTTPServer.                                                    *)
(*                                                                         *)
(* Strings that the code inspects character by character are sequences of  *)
(* one-character strings; identifiers and error codes are TLA+ strings.    *)
(***************************************************************************)
EXTENDS Integers, Sequences, FiniteSets, TLC

(***************************************************************************)
(* Bounds of the model                                                     *)
(***************************************************************************)
MaxRecipients == 3
MaxTicks == 3
MaxCalls == 3
\* Length of the comments enumerated exhaustively.
MaxCommentLen == 3

(***************************************************************************)
(* Program constants                                                       *)
(***************************************************************************)
MAX_BODY_BYTES == 20000
SERVICES_CACHE_TTL_SECONDS == 60
NAME_MAX == 80
PHONE_FIELD_MAX == 40
CAR_MAX == 120
SERVICE_MAX == 120
COMMENT_MAX == 600
PHONE_MIN_LEN == 6
PHONE_MAX_LEN == 25

(***************************************************************************)
(* Characters and JSON values                                              *)
(***************************************************************************)
Whitespace == {" ", "\t", "\n", "\r"}
Digits == {"0", "1", "2", "3", "4", "5", "6", "7", "8", "9"}
PhonePunct == {"+", "(", ")", "-"}

IsSpace(c) == c \in Whitespace

\* A JSON value found under a key of the payload: payload.get(key) is None
\* when the key is absent, and may be any JSON type.
Absent == [t |-> "absent", s |-> <<>>]
Num == [t |-> "number", s |-> <<>>]
Str(s) == [t |-> "str", s |-> s]
IsStr(v) == v.t = "str"

Min(a, b) == IF a < b THEN a ELSE b

\* s[:n]
Take(s, n) == SubSeq(s, 1, Min(n, Len(s)))

\* The positions of s, in order.
Indices(s) == [i \in 1..Len(s) |-> i]

\* str.lstrip(): from the first non-whitespace character on.
LStrip(s) ==
  IF \A i \in 1..Len(s) : IsSpace(s[i]) THEN <<>>
  ELSE LET first == CHOOSE i \in 1..Len(s) :
                      ~IsSpace(s[i]) /\ \A j \in 1..(i - 1) : IsSpace(s[j])
       IN SubSeq(s, first, Len(s))

\* str.rstrip(): up to the last non-whitespace character.
RStrip(s) ==
  IF \A i \in 1..Len(s) : IsSpace(s[i]) THEN <<>>
  ELSE LET last == CHOOSE i \in 1..Len(s) :
                     ~IsSpace(s[i]) /\ \A j \in (i + 1)..Len(s) : IsSpace(s[j])
       IN SubSeq(s, 1, last)

\* str.strip()
Strip(s) == RStrip(LStrip(s))

\* str.split(): the maximal runs of non-whitespace characters, in order.
SplitWs(s) ==
  LET WordStart(i) == ~IsSpace(s[i]) /\ (i = 1 \/ IsSpace(s[i - 1]))
      WordEnd(i) == ~IsSpace(s[i]) /\ (i = Len(s) \/ IsSpace(s[i + 1]))
      starts == SelectSeq(Indices(s), WordStart)
      ends == SelectSeq(Indices(s), WordEnd)
  IN [k \in 1..Len(starts) |-> SubSeq(s, starts[k], ends[k])]

\* str.split(sep) for a one-character separator: every field, empty ones
\* included.
SplitOn(s, sep) ==
  LET IsSep(i) == s[i] = sep
      seps == SelectSeq(Indices(s), IsSep)
      n == Len(seps)
  IN [k \in 1..(n + 1) |->
        SubSeq(s, IF k = 1 THEN 1 ELSE seps[k - 1] + 1,
                  IF k = n + 1 THEN Len(s) ELSE seps[k] - 1)]

\* sep.join(parts)
RECURSIVE Join(_, _)
Join(parts, sep) ==
  IF parts = <<>> THEN <<>>
  ELSE IF Len(parts) = 1 THEN parts[1]
  ELSE parts[1] \o <<sep>> \o Join(Tail(parts), sep)

\* value.replace("\r\n", "\n").replace("\r", "\n"): the first pass drops the
\* "\r" of every "\r\n" pair, the second turns each remaining "\r" into "\n".
NormalizeNewlines(s) ==
  LET NotCrOfCrLf(i) == ~(s[i] = "\r" /\ i < Len(s) /\ s[i + 1] = "\n")
      kept == SelectSeq(Indices(s), NotCrOfCrLf)
  IN [k \in 1..Len(kept) |-> IF s[kept[k]] = "\r" THEN "\n" ELSE s[kept[k]]]

\* [line.strip() for line in lines]
StripEach(lines) == [k \in 1..Len(lines) |-> Strip(lines[k])]

\* [line for line in lines if line]
NonEmptyOnly(lines) ==
  LET NonEmpty(line) == line # <<>>
  IN SelectSeq(lines, NonEmpty)

clean_text(value, max_len) ==
  IF ~IsStr(value) THEN <<>>
  ELSE Take(Join(SplitWs(Strip(value.s)), " "), max_len)

clean_comment(value, max_len) ==
  IF ~IsStr(value) THEN <<>>
  ELSE LET normalized == Strip(NormalizeNewlines(value.s))
           lines == StripEach(SplitOn(normalized, "\n"))
       IN Take(Join(NonEmptyOnly(lines), "\n"), max_len)

\* A pattern that asks for one character more: {7,25}.
PHONE_RE_min_seven(phone) ==
  /\ Len(phone) > PHONE_MIN_LEN
  /\ Len(phone) <= PHONE_MAX_LEN
  /\ \A i \in 1..Len(phone) :
       phone[i] \in Digits \cup PhonePunct \cup Whitespace

\* PHONE_RE.fullmatch(phone)
PHONE_RE(phone) ==
  /\ Len(phone) >= PHONE_MIN_LEN
  /\ Len(phone) <= PHONE_MAX_LEN
  /\ \A i \in 1..Len(phone) :
       phone[i] \in Digits \cup PhonePunct \cup Whitespace

NoData == [name |-> <<>>, phone |-> <<>>, car |-> <<>>, service |-> <<>>,
           comment |-> <<>>]

\* The result of validate_payload is the pair (valid, error) of the code.
Rejected(reason) == [valid |-> FALSE, data |-> NoData, error |-> reason]

\* A validation that looks at the car before the phone.
validate_payload_car_first(payload) ==
  LET name == clean_text(payload.name, NAME_MAX)
      phone == clean_text(payload.phone, PHONE_FIELD_MAX)
      car == clean_text(payload.car, CAR_MAX)
      service == clean_text(payload.service, SERVICE_MAX)
      comment == clean_comment(payload.comment, COMMENT_MAX)
  IN IF name = <<>> THEN Rejected("name_required")
     ELSE IF car = <<>> THEN Rejected("car_required")
     ELSE IF phone = <<>> THEN Rejected("phone_required")
     ELSE IF ~PHONE_RE(phone) THEN Rejected("phone_invalid")
     ELSE IF service = <<>> THEN Rejected("service_required")
     ELSE [valid |-> TRUE,
           data |-> [name |-> name, phone |-> phone, car |-> car,
                     service |-> service, comment |-> comment],
           error |-> "none"]

\* The checks of validate_payload in the order the code makes them.
validate_payload(payload) ==
  LET name == clean_text(payload.name, NAME_MAX)
      phone == clean_text(payload.phone, PHONE_FIELD_MAX)
      car == clean_text(payload.car, CAR_MAX)
      service == clean_text(payload.service, SERVICE_MAX)
      comment == clean_comment(payload.comment, COMMENT_MAX)
  IN IF name = <<>> THEN Rejected("name_required")
     ELSE IF phone = <<>> THEN Rejected("phone_required")
     ELSE IF ~PHONE_RE(phone) THEN Rejected("phone_invalid")
     ELSE IF car = <<>> THEN Rejected("car_required")
     ELSE IF service = <<>> THEN Rejected("service_required")
     ELSE [valid |-> TRUE,
           data |-> [name |-> name, phone |-> phone, car |-> car,
                     service |-> service, comment |-> comment],
           error |-> "none"]

(***************************************************************************)
(* State                                                                   *)
(***************************************************************************)
VARIABLES
  \* validate_payload applied to one payload
  vPayload, vResult, vDone,
  \* process environment read by do_POST
  botToken, adminIdsEnv, threadIdEnv,
  \* one POST /api/request: the request, the handler's position and locals
  contentLength, bodyKind, payload, ppc, admin_ids, delivered, errors,
  sendLog, response,
  \* the services cache: module globals, environment, clock, backing store
  databaseUrlSet, asyncpgInstalled, clock,
  cacheLock, cacheData, cacheUntil,
  \* one request thread per worker inside load_active_services
  wpc, now, services, result, calls,
  \* history of the cache, recorded for the properties
  cacheMeta, pubPairs, pubCount, hist

valVars == <<vPayload, vResult, vDone>>
postVars == <<botToken, adminIdsEnv, threadIdEnv, contentLength, bodyKind,
              payload, ppc, admin_ids, delivered, errors, sendLog, response>>
cacheVars == <<databaseUrlSet, asyncpgInstalled, clock, cacheLock,
               cacheData, cacheUntil, wpc, now, services, result, calls,
               cacheMeta, pubPairs, pubCount, hist>>
vars == <<valVars, postVars, cacheVars>>

(***************************************************************************)
(* Payloads                                                                *)
(***************************************************************************)
\* n copies of the character c
Rep(c, n) == [i \in 1..n |-> c]

\* The values include strings longer than the caps of validate_payload,
\* with a space just before or just after the cut.
NameValues ==
  {Absent, Num, Str(<<>>), Str(<<" ", "\t">>), Str(<<" ", "a", " ", " ", "b">>),
   Str(Rep("a", NAME_MAX) \o <<"b">>),
   Str(Rep("a", NAME_MAX - 1) \o <<" ", " ", "b">>),
   Str(Rep("a", NAME_MAX) \o <<" ", "b">>)}
PhoneValues ==
  {Absent, Num, Str(<<" ">>), Str(<<"1", "2", "3">>),
   Str(<<"1", "2", "3", "4", "5", "a">>),
   Str(<<"1", "2", "3", "4", "5", "6">>),
   Str(<<" ", "+", "7", " ", " ", "(", "9", ")", " ", "1", "-", "2", "\n">>),
   Str(Rep("1", PHONE_MAX_LEN)),
   Str(Rep("1", PHONE_MAX_LEN + 1)),
   Str(Rep("1", PHONE_FIELD_MAX + 1))}
CarValues ==
  {Absent, Num, Str(<<"\n">>), Str(<<"c">>),
   Str(Rep("c", CAR_MAX - 1) \o <<"\t", "d">>)}
ServiceValues == {Absent, Num, Str(<<" ">>), Str(<<"s">>)}
CommentValues ==
  {Absent, Str(<<>>), Str(<<"a", "\r", "\n", "\r", "\n", "b", "\r", "c">>)}

Payloads ==
  [name : NameValues, phone : PhoneValues, car : CarValues,
   service : ServiceValues, comment : CommentValues]

GoodPayload ==
  [name |-> Str(<<" ", "a", " ", " ", "b">>),
   phone |-> Str(<<"1", "2", "3", "4", "5", "6">>),
   car |-> Str(<<"c">>), service |-> Str(<<"s">>), comment |-> Absent]

\* The payloads a POST carries in the model of the handler.
PostPayloads ==
  {GoodPayload,
   [GoodPayload EXCEPT !.phone = Str(<<"1", "2", "3">>)],
   [GoodPayload EXCEPT !.name = Num, !.car = Absent]}

NoResult == [valid |-> FALSE, data |-> NoData, error |-> "pending"]

(***************************************************************************)
(* POST /api/request                                                       *)
(***************************************************************************)
RecipientIds == {"A", "B"}
AdminParts == RecipientIds \cup {""}

RECURSIVE SeqsUpTo(_, _)
SeqsUpTo(S, n) ==
  IF n = 0 THEN {<<>>}
  ELSE LET shorter == SeqsUpTo(S, n - 1)
       IN shorter \cup {Append(q, x) : q \in {r \in shorter : Len(r) = n - 1}, x \in S}

\* The comments of the comment specification: every string of at most
\* MaxCommentLen characters over a letter, a space and the two line-ending
\* characters, alone and after COMMENT_MAX - 1 letters, where the cut falls
\* inside it.
CommentChars == {"a", " ", "\r", "\n"}
ShortComments == SeqsUpTo(CommentChars, MaxCommentLen)
LongComments == {Rep("a", COMMENT_MAX - 1) \o c : c \in ShortComments}
CommentInputs == ShortComments \cup LongComments

\* parse_admin_ids over the comma-separated parts of ADMIN_IDS (each part
\* already stripped): the non-empty parts, in order, duplicates kept.
RECURSIVE parse_admin_ids(_)
parse_admin_ids(parts) ==
  IF parts = <<>> THEN <<>>
  ELSE IF Head(parts) # "" THEN <<Head(parts)>> \o parse_admin_ids(Tail(parts))
  ELSE parse_admin_ids(Tail(parts))

ThreadIdValues == {<<>>, <<"7">>, <<"4", "2">>, <<"x">>, <<"7", "x">>}

\* int(thread_id) returns for a decimal literal and raises ValueError for
\* anything else.
IntParses(s) == s # <<>> /\ \A i \in 1..Len(s) : s[i] \in Digits

ContentLengths ==
  {[kind |-> "absent", n |-> 0], [kind |-> "text", n |-> 0]}
    \cup {[kind |-> "int", n |-> k] : k \in {-1, 0, 1, MAX_BODY_BYTES, MAX_BODY_BYTES + 1}}

\* int(self.headers.get("Content-Length", "0")), 0 on ValueError
ParsedLength(h) == IF h.kind = "int" THEN h.n ELSE 0

BodyKinds == {"bad_utf8", "bad_json", "non_object", "object"}

\* What the Telegram API call of one send does.
Upstream ==
  {[k |-> "ok", text |-> ""],
   [k |-> "rejected", text |-> "chat not found"],
   [k |-> "rejected", text |-> ""],
   [k |-> "http_error", text |-> "403"],
   [k |-> "url_error", text |-> ""],
   [k |-> "other_exception", text |-> ""]}

SendResult(raised, success, err) ==
  [raised |-> raised, success |-> success, error |-> err]

\* A send that reports a rejection without description as a failure with an
\* empty error code.
send_telegram_message_no_fallback(thread_id, up) ==
  IF thread_id # <<>> /\ ~IntParses(thread_id) THEN SendResult(TRUE, FALSE, "")
  ELSE IF up.k = "ok" THEN SendResult(FALSE, TRUE, "")
  ELSE IF up.k = "rejected" THEN SendResult(FALSE, FALSE, up.text)
  ELSE IF up.k = "http_error" THEN SendResult(FALSE, FALSE, "http_" \o up.text)
  ELSE IF up.k = "url_error" THEN SendResult(FALSE, FALSE, "telegram_unreachable")
  ELSE SendResult(FALSE, FALSE, "telegram_request_failed")

\* send_telegram_message: raises (ValueError from int(thread_id), outside
\* the try block) or returns (success, error).
send_telegram_message(thread_id, up) ==
  IF thread_id # <<>> /\ ~IntParses(thread_id) THEN SendResult(TRUE, FALSE, "")
  ELSE IF up.k = "ok" THEN SendResult(FALSE, TRUE, "")
  ELSE IF up.k = "rejected"
    THEN SendResult(FALSE, FALSE,
                    IF up.text # "" THEN up.text ELSE "telegram_unknown_error")
  ELSE IF up.k = "http_error" THEN SendResult(FALSE, FALSE, "http_" \o up.text)
  ELSE IF up.k = "url_error" THEN SendResult(FALSE, FALSE, "telegram_unreachable")
  ELSE SendResult(FALSE, FALSE, "telegram_request_failed")

NoResponse ==
  [kind |-> "none", status |-> 0, ok |-> FALSE, error |-> "", delivered |-> 0,
   details |-> <<>>]
JsonError(status, code, details) ==
  [kind |-> "json", status |-> status, ok |-> FALSE, error |-> code,
   delivered |-> 0, details |-> details]
JsonDelivered(n) ==
  [kind |-> "json", status |-> 200, ok |-> TRUE, error |-> "", delivered |-> n,
   details |-> <<>>]

\* The environment and the request do not change while the handler runs.
PostEnv == <<botToken, adminIdsEnv, threadIdEnv, contentLength, bodyKind, payload>>
PostFrame == UNCHANGED <<PostEnv, valVars, cacheVars>>

Respond(r) == /\ response' = r
              /\ ppc' = "done"

\* The handler dies with an uncaught exception: no response is written.
Crash == /\ response' = NoResponse
         /\ ppc' = "crashed"

\* do_POST, lines 265-273: configuration check.
PostConfig ==
  /\ ppc = "start"
  /\ admin_ids' = parse_admin_ids(adminIdsEnv)
  /\ IF botToken = "" \/ admin_ids' = <<>>
       THEN Respond(JsonError(500, "server_not_configured", <<>>))
       ELSE /\ ppc' = "length"
            /\ UNCHANGED response
  /\ UNCHANGED <<delivered, errors, sendLog>>
  /\ PostFrame

\* do_POST, lines 275-282: Content-Length guard.
PostLength ==
  /\ ppc = "length"
  /\ LET length == ParsedLength(contentLength)
     IN IF length <= 0 \/ length > MAX_BODY_BYTES
          THEN Respond(JsonError(400, "invalid_body_size", <<>>))
          ELSE /\ ppc' = "parse"
               /\ UNCHANGED response
  /\ UNCHANGED <<admin_ids, delivered, errors, sendLog>>
  /\ PostFrame

\* do_POST, lines 284-293: decode, parse, object check.  Only
\* json.JSONDecodeError is caught: the UnicodeDecodeError of raw.decode
\* leaves the handler.
PostParse ==
  /\ ppc = "parse"
  /\ IF bodyKind = "bad_utf8" THEN Crash
     ELSE IF bodyKind = "bad_json"
       THEN Respond(JsonError(400, "invalid_json", <<>>))
     ELSE IF bodyKind = "non_object"
       THEN Respond(JsonError(400, "invalid_payload", <<>>))
     ELSE /\ ppc' = "validate"
          /\ UNCHANGED response
  /\ UNCHANGED <<admin_ids, delivered, errors, sendLog>>
  /\ PostFrame

\* A handler that goes on to the fan-out loop whatever validate_payload
\* returned.
PostValidateLenient ==
  /\ ppc = "validate"
  /\ ppc' = "send"
  /\ delivered' = 0
  /\ errors' = <<>>
  /\ UNCHANGED <<response, admin_ids, sendLog>>
  /\ PostFrame

\* do_POST, lines 295-304: field validation, then the loop's locals.
PostValidate ==
  /\ ppc = "validate"
  /\ LET v == validate_payload(payload)
     IN IF ~v.valid
          THEN /\ Respond(JsonError(400, v.error, <<>>))
               /\ UNCHANGED <<delivered, errors>>
          ELSE /\ ppc' = "send"
               /\ delivered' = 0
               /\ errors' = <<>>
               /\ UNCHANGED response
  /\ UNCHANGED <<admin_ids, sendLog>>
  /\ PostFrame

\* The loop body's bookkeeping, lines 307-310.
Tally(admin_id, r) ==
  /\ delivered' = IF r.success THEN delivered + 1 ELSE delivered
  /\ errors' = IF ~r.success /\ r.error # ""
                 THEN Append(errors, admin_id \o ":" \o r.error)
                 ELSE errors

\* do_POST, lines 305-310: one iteration of the fan-out loop.
PostSend ==
  /\ ppc = "send"
  /\ Len(sendLog) < Len(admin_ids)
  /\ LET admin_id == admin_ids[Len(sendLog) + 1]
     IN \E up \in Upstream :
          LET r == send_telegram_message(threadIdEnv, up)
          IN IF r.raised
               THEN /\ Crash
                    /\ sendLog' = Append(sendLog, [id |-> admin_id, success |-> FALSE,
                                                   error |-> "raised"])
                    /\ UNCHANGED <<delivered, errors>>
               ELSE /\ Tally(admin_id, r)
                    /\ sendLog' = Append(sendLog, [id |-> admin_id, success |-> r.success,
                                                   error |-> r.error])
                    /\ UNCHANGED <<ppc, response>>
  /\ UNCHANGED admin_ids
  /\ PostFrame

\* do_POST, lines 312-319: the aggregate response.
PostRespond ==
  /\ ppc = "send"
  /\ Len(sendLog) = Len(admin_ids)
  /\ IF delivered = 0
       THEN Respond(JsonError(502, "telegram_send_failed", errors))
       ELSE Respond(JsonDelivered(delivered))
  /\ UNCHANGED <<admin_ids, delivered, errors, sendLog>>
  /\ PostFrame

PostNext ==
  \/ PostConfig
  \/ PostLength
  \/ PostParse
  \/ PostValidate
  \/ PostSend
  \/ PostRespond

(***************************************************************************)
(* GET /api/services: load_active_services                                 *)
(***************************************************************************)
Workers == {"w1", "w2"}
NoOne == "nobody"

\* The clock advances in steps of a third of the TTL.
TickLen == SERVICES_CACHE_TTL_SECONDS \div 3
MaxClock == MaxTicks * TickLen

\* A services listing is the sequence of the ids of its rows; the global
\* _services_cache_data is None or a listing.  Listings is what the table
\* of active services may hold when a query reads it.
Listings == {<<>>, <<1>>}
None == [some |-> FALSE, rows |-> <<>>]
Some(rows) == [some |-> TRUE, rows |-> rows]

NoReturn == [kind |-> "none", rows |-> <<>>, error |-> ""]
Data(rows) == [kind |-> "data", rows |-> rows, error |-> ""]
Error(code) == [kind |-> "error", rows |-> <<>>, error |-> code]

\* What is recorded about a call, for the properties only:
\*   startSeq, startDone  publishes so far and completion time of the cached
\*                        fetch when the call read the clock (-1: none)
\*   expiredUntil         the cached expiry when the call read the clock, if
\*                        that entry had expired (-1 otherwise)
\*   fetch                "none", "ok" or "failed": the call's own fetch
\*   cycle, began         publishes so far and time when its fetch began
\*   doneAt               time when its fetch completed
\*   published            it wrote the cache
\*   hitPair              the (snapshot, expiry) it judged fresh
\*   resBegan             when the fetch of the returned data began
NoHist ==
  [startSeq |-> 0, startDone |-> -1, expiredUntil |-> -1, fetch |-> "none",
   cycle |-> -1, began |-> -1, doneAt |-> -1, published |-> FALSE,
   hitPair |-> <<None, 0>>, resBegan |-> -1]

NoMeta == [doneAt |-> -1, began |-> -1, until |-> 0, some |-> FALSE]

CacheFrame == UNCHANGED <<valVars, postVars>>

\* A lock that never makes a thread wait.
LockFreeIgnored == TRUE

\* `with _services_cache_lock:` is entered only when no thread holds it.
LockFree == cacheLock = NoOne

\* load_active_services, lines 189-193: the configuration check and the
\* clock reading of the call.
Start(w) ==
  /\ wpc[w] \in {"idle", "returned"}
  /\ calls < MaxCalls
  /\ calls' = calls + 1
  /\ IF ~databaseUrlSet
       THEN /\ result' = [result EXCEPT ![w] = Error("database_not_configured")]
            /\ wpc' = [wpc EXCEPT ![w] = "returned"]
            /\ UNCHANGED <<now, hist, services>>
       ELSE /\ now' = [now EXCEPT ![w] = clock]
            /\ wpc' = [wpc EXCEPT ![w] = "check"]
            /\ services' = [services EXCEPT ![w] = <<>>]
            /\ hist' = [hist EXCEPT ![w] =
                 [NoHist EXCEPT !.startSeq = pubCount,
                                !.startDone = cacheMeta.doneAt,
                                !.expiredUntil =
                                   IF cacheMeta.some /\ clock >= cacheMeta.until
                                     THEN cacheMeta.until ELSE -1]]
            /\ result' = [result EXCEPT ![w] = NoReturn]
  /\ UNCHANGED <<databaseUrlSet, asyncpgInstalled, clock, cacheLock,
                 cacheData, cacheUntil, cacheMeta, pubPairs, pubCount>>
  /\ CacheFrame

\* A freshness check that keeps the lock on a miss, for the fetch to run
\* under it.
CheckHoldingLock(w) ==
  /\ wpc[w] = "check"
  /\ LockFree
  /\ IF cacheData.some /\ now[w] < cacheUntil
       THEN /\ result' = [result EXCEPT ![w] = Data(cacheData.rows)]
            /\ wpc' = [wpc EXCEPT ![w] = "returned"]
            /\ hist' = [hist EXCEPT ![w].hitPair = <<cacheData, cacheUntil>>,
                                    ![w].resBegan = cacheMeta.began]
            /\ UNCHANGED cacheLock
       ELSE /\ wpc' = [wpc EXCEPT ![w] = "fetch"]
            /\ hist' = [hist EXCEPT ![w].cycle = pubCount, ![w].began = clock]
            /\ cacheLock' = w
            /\ UNCHANGED result
  /\ UNCHANGED <<databaseUrlSet, asyncpgInstalled, clock,
                 cacheData, cacheUntil, now, services, calls, cacheMeta,
                 pubPairs, pubCount>>
  /\ CacheFrame

\* A freshness check that takes an empty listing for no snapshot
\* (`if _services_cache_data and ...`).
CheckTruthy(w) ==
  /\ wpc[w] = "check"
  /\ LockFree
  /\ IF cacheData.some /\ cacheData.rows # <<>> /\ now[w] < cacheUntil
       THEN /\ result' = [result EXCEPT ![w] = Data(cacheData.rows)]
            /\ wpc' = [wpc EXCEPT ![w] = "returned"]
            /\ hist' = [hist EXCEPT ![w].hitPair = <<cacheData, cacheUntil>>,
                                    ![w].resBegan = cacheMeta.began]
       ELSE /\ wpc' = [wpc EXCEPT ![w] = "fetch"]
            /\ hist' = [hist EXCEPT ![w].cycle = pubCount, ![w].began = clock]
            /\ UNCHANGED result
  /\ UNCHANGED <<databaseUrlSet, asyncpgInstalled, clock, cacheLock,
                 cacheData, cacheUntil, now, services, calls, cacheMeta,
                 pubPairs, pubCount>>
  /\ CacheFrame

\* Lines 194-196: the freshness check under the lock.
Check(w) ==
  /\ wpc[w] = "check"
  /\ LockFree
  /\ IF cacheData.some /\ now[w] < cacheUntil
       THEN /\ result' = [result EXCEPT ![w] = Data(cacheData.rows)]
            /\ wpc' = [wpc EXCEPT ![w] = "returned"]
            /\ hist' = [hist EXCEPT ![w].hitPair = <<cacheData, cacheUntil>>,
                                    ![w].resBegan = cacheMeta.began]
       ELSE /\ wpc' = [wpc EXCEPT ![w] = "fetch"]
            /\ hist' = [hist EXCEPT ![w].cycle = pubCount, ![w].began = clock]
            /\ UNCHANGED result
  /\ UNCHANGED <<databaseUrlSet, asyncpgInstalled, clock, cacheLock,
                 cacheData, cacheUntil, now, services, calls, cacheMeta,
                 pubPairs, pubCount>>
  /\ CacheFrame

\* Lines 198-199: the query returned the rows the table holds now.
FetchOk(w) ==
  /\ wpc[w] = "fetch"
  /\ asyncpgInstalled
  /\ \E rows \in Listings : services' = [services EXCEPT ![w] = rows]
  /\ wpc' = [wpc EXCEPT ![w] = "publish"]
  /\ hist' = [hist EXCEPT ![w].fetch = "ok", ![w].doneAt = clock]
  /\ UNCHANGED <<databaseUrlSet, asyncpgInstalled, clock, cacheLock,
                 cacheData, cacheUntil, now, result, calls, cacheMeta,
                 pubPairs, pubCount>>
  /\ CacheFrame

\* A failed fetch that serves the cached snapshot instead of the error.
FetchFailedFallback(w, code) ==
  /\ result' = [result EXCEPT ![w] =
                  IF cacheData.some THEN Data(cacheData.rows) ELSE Error(code)]
  /\ UNCHANGED <<cacheData, cacheUntil>>

\* Lines 200-203: the except clauses return the error; no global is
\* assigned.
FetchFailed(w, code) ==
  /\ result' = [result EXCEPT ![w] = Error(code)]
  /\ UNCHANGED <<cacheData, cacheUntil>>

\* Lines 198-203: the fetch raised.
FetchError(w) ==
  /\ wpc[w] = "fetch"
  /\ FetchFailed(w, IF asyncpgInstalled THEN "services_query_failed"
                                        ELSE "asyncpg_not_installed")
  /\ wpc' = [wpc EXCEPT ![w] = "returned"]
  /\ hist' = [hist EXCEPT ![w].fetch = "failed", ![w].doneAt = clock]
  /\ UNCHANGED <<databaseUrlSet, asyncpgInstalled, clock, cacheLock, now,
                 services, calls, cacheMeta, pubPairs, pubCount>>
  /\ CacheFrame

\* Lines 205-206: take the lock and assign _services_cache_data.
PubData(w) ==
  /\ wpc[w] = "publish"
  /\ LockFree
  /\ cacheLock' = w
  /\ cacheData' = Some(services[w])
  /\ wpc' = [wpc EXCEPT ![w] = "wrote"]
  /\ UNCHANGED <<databaseUrlSet, asyncpgInstalled, clock, cacheUntil, now,
                 services, result, calls, cacheMeta, pubPairs, pubCount, hist>>
  /\ CacheFrame

\* The expiry a publish stores, line 207: counted from the clock reading
\* of line 193.
Expiry(w) == now[w] + SERVICES_CACHE_TTL_SECONDS

\* Lines 207-208: assign _services_cache_until, leave the lock, return.
PubUntil(w) ==
  /\ wpc[w] = "wrote"
  /\ cacheUntil' = Expiry(w)
  /\ cacheLock' = NoOne
  /\ result' = [result EXCEPT ![w] = Data(services[w])]
  /\ wpc' = [wpc EXCEPT ![w] = "returned"]
  /\ hist' = [hist EXCEPT ![w].published = TRUE, ![w].resBegan = hist[w].began]
  /\ cacheMeta' = [doneAt |-> hist[w].doneAt, began |-> hist[w].began,
                   until |-> cacheUntil', some |-> TRUE]
  /\ pubPairs' = pubPairs \cup {<<Some(services[w]), cacheUntil'>>}
  /\ pubCount' = pubCount + 1
  /\ UNCHANGED <<databaseUrlSet, asyncpgInstalled, clock, cacheData, now,
                 services, calls>>
  /\ CacheFrame

\* A handler that answers 502 to every error.
do_GET_all_bad_gateway(r) ==
  IF r.kind = "error"
    THEN [status |-> 502, ok |-> FALSE, error |-> r.error, services |-> <<>>,
          count |-> 0]
    ELSE [status |-> 200, ok |-> TRUE, error |-> "", services |-> r.rows,
          count |-> Len(r.rows)]

\* do_GET, lines 248-257: the response to GET /api/services for what
\* load_active_services returned.
do_GET(r) ==
  IF r.kind = "error"
    THEN [status |-> IF r.error \in {"database_not_configured", "asyncpg_not_installed"}
                       THEN 500 ELSE 502,
          ok |-> FALSE, error |-> r.error, services |-> <<>>, count |-> 0]
    ELSE [status |-> 200, ok |-> TRUE, error |-> "", services |-> r.rows,
          count |-> Len(r.rows)]

\* time.monotonic() advances.
Tick ==
  /\ clock < MaxClock
  /\ clock' = clock + TickLen
  /\ UNCHANGED <<databaseUrlSet, asyncpgInstalled, cacheLock, cacheData,
                 cacheUntil, wpc, now, services, result, calls, cacheMeta,
                 pubPairs, pubCount, hist>>
  /\ CacheFrame

CacheNext ==
  \/ \E w \in Workers : Start(w)
  \/ \E w \in Workers : Check(w)
  \/ \E w \in Workers : FetchOk(w)
  \/ \E w \in Workers : FetchError(w)
  \/ \E w \in Workers : PubData(w)
  \/ \E w \in Workers : PubUntil(w)
  \/ Tick

(***************************************************************************)
(* validate_payload as an operation                                        *)
(***************************************************************************)
Validate ==
  /\ ~vDone
  /\ vResult' = validate_payload(vPayload)
  /\ vDone' = TRUE
  /\ UNCHANGED <<vPayload, postVars, cacheVars>>

(***************************************************************************)
(* Initial states and specifications                                       *)
(***************************************************************************)
ValIdle == /\ vPayload = GoodPayload
           /\ vResult = NoResult
           /\ vDone = FALSE

PostIdle ==
  /\ botToken = ""
  /\ adminIdsEnv = <<>>
  /\ threadIdEnv = <<>>
  /\ contentLength = [kind |-> "absent", n |-> 0]
  /\ bodyKind = "object"
  /\ payload = GoodPayload
  /\ ppc = "start"
  /\ admin_ids = <<>>
  /\ delivered = 0
  /\ errors = <<>>
  /\ sendLog = <<>>
  /\ response = NoResponse

CacheStart ==
  /\ clock = 0
  /\ cacheLock = NoOne
  /\ cacheData = None
  /\ cacheUntil = 0
  /\ wpc = [w \in Workers |-> "idle"]
  /\ now = [w \in Workers |-> 0]
  /\ services = [w \in Workers |-> <<>>]
  /\ result = [w \in Workers |-> NoReturn]
  /\ calls = 0
  /\ cacheMeta = NoMeta
  /\ pubPairs = {}
  /\ pubCount = 0
  /\ hist = [w \in Workers |-> NoHist]

CacheIdle ==
  /\ databaseUrlSet = TRUE
  /\ asyncpgInstalled = TRUE
  /\ CacheStart

\* validate_payload on every payload of Payloads.
ValInit ==
  /\ vPayload \in Payloads
  /\ vResult = NoResult
  /\ vDone = FALSE
  /\ PostIdle
  /\ CacheIdle

ValSpec == ValInit /\ [][Validate]_vars

\* validate_payload on an otherwise valid payload with every comment of
\* CommentInputs.
CommentInit ==
  /\ vPayload \in {[GoodPayload EXCEPT !.comment = Str(c)] : c \in CommentInputs}
  /\ vResult = NoResult
  /\ vDone = FALSE
  /\ PostIdle
  /\ CacheIdle

CommentSpec == CommentInit /\ [][Validate]_vars

\* One POST /api/request under every configuration and request.
PostInit ==
  /\ botToken \in {"", "token"}
  /\ adminIdsEnv \in SeqsUpTo(AdminParts, MaxRecipients)
  /\ threadIdEnv \in ThreadIdValues
  /\ contentLength \in ContentLengths
  /\ bodyKind \in BodyKinds
  /\ payload \in PostPayloads
  /\ ppc = "start"
  /\ admin_ids = <<>>
  /\ delivered = 0
  /\ errors = <<>>
  /\ sendLog = <<>>
  /\ response = NoResponse
  /\ ValIdle
  /\ CacheIdle

PostSpec == PostInit /\ [][PostNext]_vars

\* Concurrent GET /api/services requests.
CacheInit ==
  /\ databaseUrlSet \in BOOLEAN
  /\ asyncpgInstalled \in BOOLEAN
  /\ CacheStart
  /\ ValIdle
  /\ PostIdle

CacheSpec == CacheInit /\ [][CacheNext]_vars

\* Every request thread that can take its next step eventually takes it.
FairCacheSpec ==
  CacheSpec /\ \A w \in Workers :
    /\ WF_vars(Check(w))
    /\ WF_vars(FetchOk(w) \/ FetchError(w))
    /\ WF_vars(PubData(w))
    /\ WF_vars(PubUntil(w))

(***************************************************************************)
(* Properties of POST /api/request (PostSpec)                              *)
(***************************************************************************)
Finished == ppc \in {"done", "crashed"}

\* The request passes every guard before delivery: configuration, size,
\* JSON object, field validation.
ReachesDelivery ==
  /\ botToken # ""
  /\ parse_admin_ids(adminIdsEnv) # <<>>
  /\ ParsedLength(contentLength) \in 1..MAX_BODY_BYTES
  /\ bodyKind = "object"
  /\ validate_payload(payload).valid

RECURSIVE Successes(_)
Successes(log) ==
  IF log = <<>> THEN 0
  ELSE (IF Head(log).success THEN 1 ELSE 0) + Successes(Tail(log))

RECURSIVE FailureEntries(_)
FailureEntries(log) ==
  IF log = <<>> THEN <<>>
  ELSE (IF Head(log).success THEN <<>>
        ELSE <<Head(log).id \o ":" \o Head(log).error>>)
       \o FailureEntries(Tail(log))

RECURSIVE AttemptedIds(_)
AttemptedIds(log) ==
  IF log = <<>> THEN <<>> ELSE <<Head(log).id>> \o AttemptedIds(Tail(log))

\* C1: a POST with a valid body and at least one recipient is answered 200
\* {ok: true, delivered: n} exactly when some recipient delivery succeeded,
\* with n the number of successful sends, and 502 telegram_send_failed
\* exactly when no recipient delivery succeeded.
C1_AggregateOutcome ==
  (Finished /\ ReachesDelivery) =>
    /\ (response.kind = "json" /\ response.status = 200 /\ response.ok)
         <=> (Successes(sendLog) >= 1)
    /\ (response.kind = "json" /\ response.status = 502 /\ ~response.ok
          /\ response.error = "telegram_send_failed")
         <=> (Successes(sendLog) = 0)
    /\ response.status = 200 => response.delivered = Successes(sendLog)

\* The fan-out loop has run to its end.
LoopEnded ==
  \/ ppc = "send" /\ Len(sendLog) = Len(admin_ids)
  \/ ppc = "done" /\ response.status \in {200, 502}

\* C2: after the fan-out loop the failure list holds one entry
\* "<recipient_id>:<error_code>" per failed recipient and none for a
\* successful one, in configured order, delivered plus the number of
\* entries is the number of recipients, and a 502 response carries that
\* list as its details.
C2_FailureList ==
  LoopEnded =>
    /\ AttemptedIds(sendLog) = admin_ids
    /\ errors = FailureEntries(sendLog)
    /\ delivered = Successes(sendLog)
    /\ delivered + Len(errors) = Len(admin_ids)
    /\ response.status = 502 =>
         /\ response.details = FailureEntries(sendLog)
         /\ Len(response.details) = Len(admin_ids)

\* C2 witness: three recipients with a duplicate, the first and the last
\* send failed, the second succeeded, and the response is out.
C2_Witness ==
  /\ ppc = "done"
  /\ admin_ids = <<"A", "B", "A">>
  /\ response.status = 200
  /\ delivered = 1
  /\ errors = <<"A:http_403", "A:telegram_unknown_error">>

\* C9: every request to POST /api/request ends with a JSON envelope that
\* carries a boolean ok, and the handler never dies on an exception.
C9_AlwaysJsonEnvelope ==
  Finished =>
    /\ ppc = "done"
    /\ response.kind = "json"
    /\ response.ok \in BOOLEAN
    /\ response.ok <=> response.status = 200

\* The server has a bot token and at least one recipient.
Configured == botToken # "" /\ parse_admin_ids(adminIdsEnv) # <<>>

\* Content-Length is absent, non-numeric, zero, negative or above the limit.
SizeRejected ==
  \/ contentLength.kind \in {"absent", "text"}
  \/ contentLength.n <= 0
  \/ contentLength.n > MAX_BODY_BYTES

\* The code of the first guard the request fails, in the order size, JSON
\* parse, object check, field validation; "none" when it passes them all.
FirstFailedGuard ==
  IF SizeRejected THEN "invalid_body_size"
  ELSE IF bodyKind \in {"bad_utf8", "bad_json"} THEN "invalid_json"
  ELSE IF bodyKind = "non_object" THEN "invalid_payload"
  ELSE IF ~validate_payload(payload).valid THEN validate_payload(payload).error
  ELSE "none"

GuardAnswer ==
  IF FirstFailedGuard = "none"
    THEN ~(response.kind = "json" /\ response.status = 400)
    ELSE response = JsonError(400, FirstFailedGuard, <<>>)

\* C14: on a configured server a request is answered 400 with the code of
\* the first guard it fails, in the order size (invalid_body_size unless
\* Content-Length is in 1..20000), JSON parse (invalid_json), object check
\* (invalid_payload), field validation, and with no 400 when it passes all.
C14_GuardOrder == (Finished /\ Configured) => GuardAnswer

\* The part of C14 that holds: every request whose body is valid UTF-8.
C14_GuardOrderDecodable ==
  (Finished /\ Configured /\ bodyKind # "bad_utf8") => GuardAnswer

\* C16: a request that reaches delivery attempts every configured
\* recipient entry exactly once, in configured order, without retry and
\* without stopping early: the sequence of send attempts is the configured
\* recipient sequence.
C16_EveryRecipientOnce ==
  (Finished /\ ReachesDelivery) =>
    AttemptedIds(sendLog) = parse_admin_ids(adminIdsEnv)

\* The part of C16 that holds: the attempts made so far are always the
\* first entries of the configured sequence, and all of them once a
\* response is written.
C16_OrderedPrefix ==
  LET configured == parse_admin_ids(adminIdsEnv)
  IN /\ Len(sendLog) <= Len(configured)
     /\ AttemptedIds(sendLog) = SubSeq(configured, 1, Len(sendLog))
     /\ (ppc = "done" /\ ReachesDelivery) => AttemptedIds(sendLog) = configured

\* The request passed the configuration check, the size, JSON and object
\* guards and field validation.
PassedEveryStage ==
  /\ Configured
  /\ ~SizeRejected
  /\ bodyKind = "object"
  /\ validate_payload(payload).valid

\* C19: a send attempt happens only for a request that passed the
\* configuration check, the size, JSON and object guards and field
\* validation; a misconfigured server answers 500 server_not_configured
\* whatever the length header and the body are; every 400 or 500 response
\* goes with zero send attempts.
C19_NoSendBeforeGuards ==
  /\ sendLog # <<>> => PassedEveryStage
  /\ (Finished /\ ~Configured) =>
       response = JsonError(500, "server_not_configured", <<>>)
  /\ (response.kind = "json" /\ response.status \in {400, 500}) =>
       sendLog = <<>> /\ delivered = 0

\* C19 witness: a configured server with three recipients answered 400
\* phone_invalid to a well-sized JSON object, and no send was attempted.
C19_Witness ==
  /\ ppc = "done"
  /\ Len(admin_ids) = MaxRecipients
  /\ ~SizeRejected
  /\ bodyKind = "object"
  /\ response = JsonError(400, "phone_invalid", <<>>)
  /\ sendLog = <<>>

(***************************************************************************)
(* Properties of validate_payload (ValSpec)                                *)
(***************************************************************************)
\* A field counts as empty when it is no string or holds only whitespace.
EmptyField(v) == ~IsStr(v) \/ \A i \in 1..Len(v.s) : IsSpace(v.s[i])

ReasonOrder ==
  <<"name_required", "phone_required", "phone_invalid", "car_required",
    "service_required">>

\* The checks, numbered in the priority order, that a payload fails.
FailedChecks(p) ==
  {i \in 1..5 :
     \/ i = 1 /\ EmptyField(p.name)
     \/ i = 2 /\ EmptyField(p.phone)
     \/ i = 3 /\ ~PHONE_RE(clean_text(p.phone, PHONE_FIELD_MAX))
     \/ i = 4 /\ EmptyField(p.car)
     \/ i = 5 /\ EmptyField(p.service)}

FirstFailed(p) == CHOOSE i \in FailedChecks(p) : \A j \in FailedChecks(p) : i <= j

\* C10: validate_payload returns the reason of the earliest failing check
\* in the order name_required, phone_required, phone_invalid, car_required,
\* service_required, whatever later checks fail too, a non-string field
\* counting as empty; it accepts exactly the payloads failing no check.
C10_FirstReasonOnly ==
  vDone =>
    IF FailedChecks(vPayload) = {}
      THEN vResult.valid /\ vResult.error = "none"
      ELSE ~vResult.valid /\ vResult.error = ReasonOrder[FirstFailed(vPayload)]

\* C10 witness: phone is not a string, car and service are missing too, and
\* the one reason returned is phone_required.
C10_Witness ==
  /\ vDone
  /\ ~EmptyField(vPayload.name)
  /\ vPayload.phone = Num
  /\ vPayload.car = Absent
  /\ vPayload.service = Num
  /\ FailedChecks(vPayload) = {2, 3, 4, 5}
  /\ vResult.error = "phone_required"

\* The value of a field after normalization: whitespace runs collapsed to
\* one space, ends trimmed.
Normalized(v) == Join(SplitWs(v.s), " ")

\* The allowed class of a phone: digits, +, -, (, ), spaces; length 6 to 25.
PhoneAllowed(s) ==
  /\ Len(s) \in PHONE_MIN_LEN..PHONE_MAX_LEN
  /\ \A i \in 1..Len(s) : s[i] \in Digits \cup {"+", "-", "(", ")", " "}

RequiredReason ==
  [name |-> "name_required", phone |-> "phone_required",
   car |-> "car_required", service |-> "service_required"]

\* name, phone, car and service are non-empty after normalization and the
\* phone is in the allowed class.
WellFormedInput(p) ==
  /\ \A f \in DOMAIN RequiredReason : ~EmptyField(p[f])
  /\ PhoneAllowed(Normalized(p.phone))

\* C11: a payload whose name, phone, car and service are non-empty after
\* normalization and whose phone is in the allowed class is accepted,
\* whatever its comment; with exactly one of the four fields removed it is
\* rejected with that field's own reason.
C11_AcceptsWellFormed ==
  (vDone /\ WellFormedInput(vPayload)) =>
    /\ vResult.valid
    /\ vResult.error = "none"
    /\ \A f \in DOMAIN RequiredReason :
         LET r == validate_payload([vPayload EXCEPT ![f] = Absent])
         IN ~r.valid /\ r.error = RequiredReason[f]

\* C11 witness: an accepted payload without comment whose phone is exactly
\* six characters long.
C11_Witness ==
  /\ vDone
  /\ WellFormedInput(vPayload)
  /\ vPayload.comment = Absent
  /\ Len(Normalized(vPayload.phone)) = PHONE_MIN_LEN
  /\ vResult.valid

\* The caps of the four text fields of a ValidatedRequest.
FieldCap ==
  [name |-> NAME_MAX, phone |-> PHONE_FIELD_MAX,
   car |-> CAR_MAX, service |-> SERVICE_MAX]

\* s has no run of two or more whitespace characters.
NoWhitespaceRun(s) ==
  \A i \in 1..(Len(s) - 1) : ~(IsSpace(s[i]) /\ IsSpace(s[i + 1]))

\* s has no leading or trailing whitespace.
Trimmed(s) == s = <<>> \/ (~IsSpace(s[1]) /\ ~IsSpace(s[Len(s)]))

\* C12: every accepted request has name, phone, car and service non-empty,
\* at most their cap long, without a run of two whitespace characters and
\* without leading or trailing whitespace, truncated inputs included.
C12_FieldInvariant ==
  (vDone /\ vResult.valid) =>
    \A f \in DOMAIN FieldCap :
      LET s == vResult.data[f]
      IN /\ s # <<>>
         /\ Len(s) <= FieldCap[f]
         /\ NoWhitespaceRun(s)
         /\ Trimmed(s)

\* The part of C12 that the truncation leaves intact: non-empty, within the
\* cap, no whitespace run, no leading whitespace.
C12_ExceptTrailingSpace ==
  (vDone /\ vResult.valid) =>
    \A f \in DOMAIN FieldCap :
      LET s == vResult.data[f]
      IN /\ s # <<>>
         /\ Len(s) <= FieldCap[f]
         /\ NoWhitespaceRun(s)
         /\ ~IsSpace(s[1])

\* c is made of lines joined by single newlines: no carriage return, no
\* empty line, no line that starts or ends with whitespace.
CommentShape(c) ==
  /\ \A i \in 1..Len(c) : c[i] # "\r"
  /\ c # <<>> => (~IsSpace(c[1]) /\ ~IsSpace(c[Len(c)]))
  /\ \A i \in 1..(Len(c) - 1) :
       /\ c[i] = "\n" => ~IsSpace(c[i + 1])
       /\ c[i + 1] = "\n" => ~IsSpace(c[i])

\* C13: the comment returned by clean_comment has at most 600 characters, no
\* carriage return, no empty line and no line with leading or trailing
\* whitespace, truncated inputs included.
C13_CommentShape ==
  vDone =>
    /\ Len(vResult.data.comment) <= COMMENT_MAX
    /\ CommentShape(vResult.data.comment)

\* The part of C13 that holds: the length cap always, the shape whenever
\* the cut removed nothing or did not end on whitespace.
C13_ShapeUnlessCutOnSpace ==
  vDone =>
    LET c == vResult.data.comment
    IN /\ Len(c) <= COMMENT_MAX
       /\ (Len(c) < COMMENT_MAX \/ ~IsSpace(c[Len(c)])) => CommentShape(c)

(***************************************************************************)
(* Properties of the services cache (CacheSpec)                            *)
(***************************************************************************)
TTL == SERVICES_CACHE_TTL_SECONDS

Returned(w) == wpc[w] = "returned"

\* The call went to the backing store (its freshness check missed).
Queried(w) == hist[w].cycle >= 0

\* C3: the expiry a successful fetch publishes is the time at which that
\* fetch completed plus 60.
C3_TtlFromCompletion ==
  cacheMeta.some => cacheMeta.until = cacheMeta.doneAt + TTL

\* Both calls were issued within 60 time units after the successful fetch
\* that was cached when the call of w1 read the clock.
SameWindow(w1, w2) ==
  /\ wpc[w1] # "idle" /\ wpc[w2] # "idle"
  /\ hist[w1].startSeq >= 1
  /\ hist[w2].startSeq >= hist[w1].startSeq
  /\ now[w1] < hist[w1].startDone + TTL
  /\ now[w2] < hist[w1].startDone + TTL

\* C4 (first sentence): two calls issued within 60 time units after a
\* successful fetch do not both query the backing store and return
\* identical snapshots.
C4_WindowServedFromCache ==
  \A w1, w2 \in Workers :
    (w1 # w2 /\ SameWindow(w1, w2)) =>
      /\ ~(Queried(w1) /\ Queried(w2))
      /\ (Returned(w1) /\ Returned(w2) /\ result[w1].kind = "data"
            /\ result[w2].kind = "data")
           => result[w1].rows = result[w2].rows

\* C5: no two workers both fetch and both publish for the same expiry
\* cycle (the cycle of a refresh is the number of publishes that preceded
\* its freshness check).
C5_SingleRefresher ==
  \A w1, w2 \in Workers :
    (w1 # w2 /\ hist[w1].published /\ hist[w2].published)
      => hist[w1].cycle # hist[w2].cycle

\* C6: whenever the cache lock is free the (snapshot, expiry) pair is the
\* pair of one single publish or the initial empty entry, and a call served
\* from the cache returns the snapshot of one publish, judged fresh against
\* the expiry of that same publish.
C6_AtomicPublication ==
  /\ cacheLock = NoOne => <<cacheData, cacheUntil>> \in pubPairs \cup {<<None, 0>>}
  /\ \A w \in Workers :
       (Returned(w) /\ result[w].kind = "data" /\ hist[w].fetch = "none") =>
         /\ hist[w].hitPair \in pubPairs
         /\ result[w].rows = hist[w].hitPair[1].rows
         /\ now[w] < hist[w].hitPair[2]

\* C6 witness: a publisher has assigned the new snapshot but not yet the
\* new expiry, the globals pair a snapshot with the expiry of another
\* publish, and a reader is at its freshness check.
C6_Witness ==
  \E p, r \in Workers :
    /\ wpc[p] = "wrote"
    /\ wpc[r] = "check"
    /\ pubPairs # {}
    /\ <<cacheData, cacheUntil>> \notin pubPairs

\* C7, on returned calls: data comes from a still-fresh cached snapshot
\* without a fetch attempt or from the call's own successful fetch; a call
\* whose fetch failed returns that error, never a snapshot.
C7_Returns ==
  \A w \in Workers :
    Returned(w) =>
      /\ result[w].kind = "data" =>
           \/ /\ hist[w].fetch = "none"
              /\ ~Queried(w)
              /\ hist[w].hitPair[1].some
              /\ result[w].rows = hist[w].hitPair[1].rows
              /\ now[w] < hist[w].hitPair[2]
           \/ /\ hist[w].fetch = "ok"
              /\ result[w].rows = services[w]
      /\ hist[w].fetch = "failed" =>
           /\ result[w].kind = "error"
           /\ result[w].error \in {"services_query_failed", "asyncpg_not_installed"}
      /\ (result[w].kind = "error" /\ databaseUrlSet) => hist[w].fetch = "failed"

\* C7, on the step of a failing fetch: snapshot and expiry stay as they are.
C7_FailureStep ==
  \A w \in Workers :
    (wpc[w] = "fetch" /\ wpc'[w] = "returned") =>
      /\ cacheData' = cacheData
      /\ cacheUntil' = cacheUntil
      /\ result'[w].kind = "error"

\* C7: a failed fetch leaves the cached snapshot and expiry unchanged and
\* returns its error to the caller that attempted it; a caller gets the
\* still-fresh cached snapshot without a fetch attempt, or the result of
\* its own fetch attempt, never an expired snapshot as a fallback.
C7_FailedFetchKeepsCache == []C7_Returns /\ [][C7_FailureStep]_vars

\* C7 witness: a snapshot is cached, it had expired when the call read the
\* clock, the call's fetch failed, and the call returned the error.
C7_Witness ==
  \E w \in Workers :
    /\ Returned(w)
    /\ hist[w].fetch = "failed"
    /\ hist[w].expiredUntil >= 0
    /\ cacheData.some
    /\ cacheLock = NoOne
    /\ result[w] = Error("services_query_failed")

\* C8 (liveness half, under FairCacheSpec): every call inside
\* load_active_services eventually returns.
C8_EveryCallReturns ==
  \A w \in Workers :
    (wpc[w] \in {"check", "fetch", "publish", "wrote"}) ~> Returned(w)

\* C8 (safety half): a call that read the clock once the TTL of the cached
\* entry had elapsed returns only data of a fetch that began after that
\* expiry.
C8_NoStaleAfterExpiry ==
  \A w \in Workers :
    (Returned(w) /\ result[w].kind = "data" /\ hist[w].expiredUntil >= 0)
      => hist[w].resBegan >= hist[w].expiredUntil

\* C15, on states: without DATABASE_URL every call returns
\* database_not_configured at once, with no query and an untouched cache
\* entry; the three error outcomes are told apart by their cause and are
\* answered 500, 502 (services_query_failed) and 500.
C15_ErrorOutcomes ==
  /\ ~databaseUrlSet =>
       /\ cacheData = None /\ cacheUntil = 0 /\ cacheLock = NoOne
       /\ \A w \in Workers :
            /\ wpc[w] \in {"idle", "returned"}
            /\ ~Queried(w) /\ hist[w].fetch = "none"
            /\ Returned(w) =>
                 /\ result[w] = Error("database_not_configured")
                 /\ do_GET(result[w]).status = 500
  /\ \A w \in Workers :
       (Returned(w) /\ result[w].kind = "error") =>
         LET e == result[w].error
             resp == do_GET(result[w])
         IN /\ ~resp.ok /\ resp.error = e
            /\ e = "database_not_configured" <=> ~databaseUrlSet
            /\ e = "asyncpg_not_installed" <=> (databaseUrlSet /\ ~asyncpgInstalled)
            /\ e = "services_query_failed" <=> (databaseUrlSet /\ asyncpgInstalled)
            /\ resp.status = 502 <=> e = "services_query_failed"
            /\ resp.status = 500 <=>
                 e \in {"database_not_configured", "asyncpg_not_installed"}

\* C15, on steps: a step in which a call returns an error leaves snapshot
\* and expiry as they are.
C15_ErrorStep ==
  \A w \in Workers :
    (result'[w].kind = "error" /\ (wpc[w] # "returned" \/ calls' # calls)) =>
      /\ cacheData' = cacheData
      /\ cacheUntil' = cacheUntil

\* C15: with no backing-store address configured get_services returns
\* database_not_configured (500) immediately, attempts no query and leaves
\* snapshot and expiry unchanged; the error differs from
\* services_query_failed (502) and asyncpg_not_installed (500), and none of
\* the three error outcomes changes the cache entry.
C15_ErrorsLeaveCache == []C15_ErrorOutcomes /\ [][C15_ErrorStep]_vars

\* C15 witness: both workers have called without DATABASE_URL and hold
\* database_not_configured.
C15_Witness ==
  /\ ~databaseUrlSet
  /\ calls = MaxCalls
  /\ \A w \in Workers :
       Returned(w) /\ result[w] = Error("database_not_configured")

\* C17: the cache lock is never held while a backing-store fetch is in
\* progress: its holder is between the two assignments of a publish, so a
\* call at its freshness check waits for no fetch, and with no publish in
\* progress the lock is free for it.
C17_NoLockDuringFetch ==
  /\ \A w \in Workers : wpc[w] \in {"check", "fetch", "publish"} => cacheLock # w
  /\ cacheLock # NoOne => wpc[cacheLock] = "wrote"
  /\ (\A w \in Workers : wpc[w] # "wrote") => LockFree

\* C17 witness: the fetch of one worker is in flight, and a call of the
\* other that read the clock after that fetch began has returned the
\* non-expired snapshot without a fetch.
C17_Witness ==
  \E p, r \in Workers :
    /\ wpc[p] = "fetch"
    /\ Returned(r)
    /\ result[r].kind = "data"
    /\ hist[r].fetch = "none"
    /\ now[r] > hist[p].began
    /\ LockFree

\* A publish completes in this step.
Publishes == pubCount' # pubCount

\* C18: the cache entry only moves forward: a publish never lowers the
\* stored expiry and never replaces the stored snapshot with the result of
\* a fetch that began earlier than the fetch whose result is stored.
C18_EntryMovesForward ==
  [][Publishes =>
       /\ cacheUntil' >= cacheUntil
       /\ cacheMeta'.began >= cacheMeta.began]_vars

\* C20, on states: a call served from the cache is answered 200 with
\* ok=true, the cached rows and their number, empty snapshot or not.
C20_HitResponse ==
  \A w \in Workers :
    (Returned(w) /\ result[w].kind = "data" /\ hist[w].fetch = "none") =>
      LET resp == do_GET(result[w])
      IN /\ ~Queried(w)
         /\ hist[w].hitPair[1].some
         /\ resp.status = 200 /\ resp.ok
         /\ resp.services = hist[w].hitPair[1].rows
         /\ resp.count = Len(hist[w].hitPair[1].rows)

\* C20, on the step of the freshness check: with a snapshot stored, empty
\* or not, and the call's clock reading before the expiry the call returns
\* the snapshot and goes to no fetch; with no snapshot stored it fetches.
C20_CheckStep ==
  \A w \in Workers :
    (wpc[w] = "check" /\ wpc'[w] # "check") =>
      /\ (cacheData # None /\ now[w] < cacheUntil) =>
           /\ wpc'[w] = "returned"
           /\ result'[w] = Data(cacheData.rows)
           /\ hist'[w].fetch = "none" /\ hist'[w].cycle = -1
      /\ cacheData = None => wpc'[w] = "fetch"

\* C20: an empty listing is a valid cached snapshot: within the TTL window
\* of a fetch that returned zero rows every call returns the empty list
\* with ok=true and count 0 without a query, as for a non-empty snapshot;
\* the never-populated entry forces a fetch.
C20_EmptyListingCached == []C20_HitResponse /\ [][C20_CheckStep]_vars

\* C20 witness: a call was served the cached empty listing without a fetch
\* and is answered count 0.
C20_Witness ==
  \E w \in Workers :
    /\ Returned(w)
    /\ result[w] = Data(<<>>)
    /\ hist[w].fetch = "none"
    /\ hist[w].hitPair[1] = Some(<<>>)
    /\ do_GET(result[w]).ok
    /\ do_GET(result[w]).count = 0

====
